---- MODULE Spec2Model ----
(***************************************************************************)
(* Lesson renderer of parser.mjs / my_parser.mjs: fetchLessonAndParse      *)
(* walks json.components once, renders each component to a Markdown        *)
(* fragment, collects the fragments in structuredContent and joins them.   *)
(*                                                                         *)
(* A JavaScript string is modelled as a sequence of tokens.  A newline is  *)
(* always a token of its own ("\n"), so that trailing-newline and          *)
(* blank-line properties count real characters; a literal of the source    *)
(* that holds no newline is one token.  A JavaScript object is a record    *)
(* whose domain is the set of properties that are present.  Characters     *)
(* outside ASCII and the backtick are written as bracketed tokens          *)
(* ("[em dash]", "[3 backticks]"); the emoji of the Evaluation Code and    *)
(* CodeTest Solution summaries and the backticks around the docker job     *)
(* name are left out of their tokens.                                      *)
(*                                                                         *)
(* Three specifications share the actions of the render: Spec is one call  *)
(* of fetchLessonAndParse on any document, SpecRepeat is a series of such  *)
(* calls in one process, and SpecScrape is scrapeWithAuth of my_parser.mjs *)
(* from the launch of its browser to its return, the render included.      *)
(***************************************************************************)
EXTENDS Integers, Sequences, FiniteSets, TLC

VARIABLES
    variant,            \* which program runs: "parser" or "my_parser"
    json,               \* the parsed lesson document (read-only input)
    pc,                 \* position of fetchLessonAndParse
    i,                  \* index of the next component of the for-of loop
    structuredContent,  \* the fragment list: <<type, text>> pairs
    pushSite,           \* per fragment: the push statement that emitted it
    log,                \* console.log lines of the dispatcher
    fullMarkdown,       \* the joined document (empty until the join)
    lessonFile,         \* lesson_output.md as left by writeFile
    posts,              \* bodies delivered to the n8n webhook
    errorCalls,         \* reason codes postErrorToWebhook was called with
    outcome,            \* how the run ended ("running" until it does)
    browsers,           \* the puppeteer browsers: "none", "open" or "closed"
    calls,              \* number of render calls started
    returned,           \* the <<document, Markdown>> pairs returned so far
    now                 \* Date.now()

vars == <<variant, json, pc, i, structuredContent, pushSite, log,
          fullMarkdown, lessonFile, posts, errorCalls, outcome, browsers,
          calls, returned, now>>

\* what a step of the component loop leaves alone
aroundLoop == <<errorCalls, outcome, browsers, calls, returned, now>>

----------------------------------------------------------------------------
(* Strings                                                                 *)

NL == "\n"

IsSpace(t) == t \in {" ", NL, "\t"}

RECURSIVE TrimStart(_)
TrimStart(s) ==
    IF s # <<>> /\ IsSpace(Head(s)) THEN TrimStart(Tail(s)) ELSE s

RECURSIVE TrimEnd(_)
TrimEnd(s) ==
    IF s # <<>> /\ IsSpace(s[Len(s)])
    THEN TrimEnd(SubSeq(s, 1, Len(s) - 1))
    ELSE s

\* String.prototype.trim
Trim(s) == TrimEnd(TrimStart(s))

\* String.prototype.endsWith("\n")
EndsWithNL(s) == s # <<>> /\ s[Len(s)] = NL

\* Array.prototype.join(sep) over a sequence of strings
RECURSIVE JoinWith(_, _)
JoinWith(parts, sep) ==
    IF parts = <<>> THEN <<>>
    ELSE IF Len(parts) = 1 THEN parts[1]
    ELSE parts[1] \o sep \o JoinWith(Tail(parts), sep)

\* concatenation of a sequence of strings (repeated +=)
RECURSIVE Concat(_)
Concat(parts) ==
    IF parts = <<>> THEN <<>> ELSE Head(parts) \o Concat(Tail(parts))

\* String.prototype.toLowerCase on the language names of the inputs
LowerTok(t) ==
    CASE t = "Python" -> "python"
      [] t = "Java"   -> "java"
      [] t = "GO"     -> "go"
      [] OTHER        -> t

ToLowerCase(s) == [k \in 1..Len(s) |-> LowerTok(s[k])]

----------------------------------------------------------------------------
(* Objects                                                                 *)

\* property f is present on object o
Has(o, f) == f \in DOMAIN o

\* o.f || d, for a string property
OrElse(o, f, d) == IF Has(o, f) /\ o[f] # <<>> THEN o[f] ELSE d

\* truthiness of a boolean property that may be absent
Flag(o, f) == Has(o, f) /\ o[f]

\* o.f?.g || d, for a string property g of an optional object f
Path(o, f, g, d) ==
    IF Has(o, f) /\ Has(o[f], g) /\ o[f][g] # <<>> THEN o[f][g] ELSE d

\* template interpolation of o.f: an absent property interpolates as the text undefined
Interp(o, f) == IF Has(o, f) THEN o[f] ELSE <<"undefined">>

----------------------------------------------------------------------------
(* Fragments shared by several renderers                                   *)

\* the three-backtick code fence delimiter
Ticks == "[3 backticks]"

\* <ticks><lang>\n<code>\n<ticks>\n
Fence(lang, code) == <<Ticks>> \o lang \o <<NL>> \o code \o <<NL, Ticks, NL>>

\* <details>\n<summary>title</summary>\n\n<fence of code>\n</details>\n
Details(title, lang, code) ==
    <<"<details>", NL, "<summary>">> \o title \o <<"</summary>", NL, NL>>
        \o Fence(lang, code) \o <<"</details>", NL>>

SolutionTitle == <<" Solution">>
Dash == <<"[em dash]">>          \* the placeholder character U+2014
Missing == <<"(missing)">>

----------------------------------------------------------------------------
(* HTML, convertKatexToMarkdown and the turndown service                   *)
(* An HTML string is a sequence of block elements [tag, level, kids]; a    *)
(* kid is a text node [kind |-> "text", text] or a katex element           *)
(* [kind |-> "katex", equation?, kids], whose kids are elements            *)
(* [equation?, text].                                                      *)

\* Node.textContent of a katex element
KatexTextContent(k) == Concat([n \in 1..Len(k.kids) |-> k.kids[n].text])

\* katex.querySelector('[equation]'): the first descendant with the attribute
RECURSIVE FirstWithEquation(_)
FirstWithEquation(kids) ==
    IF kids = <<>> THEN <<>>
    ELSE IF Has(Head(kids), "equation") THEN <<Head(kids)>>
    ELSE FirstWithEquation(Tail(kids))

\* equation?.getAttribute('equation') || katex.textContent.trim()
KatexEqText(k) ==
    LET equation == FirstWithEquation(k.kids)
    IN  IF equation # <<>> /\ equation[1].equation # <<>>
        THEN equation[1].equation
        ELSE Trim(KatexTextContent(k))

KatexReplace(kid) ==
    IF kid.kind = "katex"
    THEN [kind |-> "text", text |-> <<"$">> \o KatexEqText(kid) \o <<"$">>]
    ELSE kid

convertKatexToMarkdown(html) ==
    [b \in 1..Len(html) |->
        [html[b] EXCEPT !.kids = [n \in 1..Len(html[b].kids) |->
                                     KatexReplace(html[b].kids[n])]]]

\* turndown's escaping of Markdown syntax in text
EscapeTok(t) ==
    CASE t = "_" -> "\\_"
      [] t = "*" -> "\\*"
      [] OTHER   -> t

Escape(s) == [k \in 1..Len(s) |-> EscapeTok(s[k])]

\* .replace(/\\_/g, '_')
UnescapeUnderscore(s) == [k \in 1..Len(s) |-> IF s[k] = "\\_" THEN "_" ELSE s[k]]

InlineMd(kid) ==
    IF kid.kind = "katex" THEN Escape(KatexTextContent(kid)) ELSE Escape(kid.text)

Hashes(n) == [k \in 1..n |-> "#"]

\* the 'headers' rule: '#'.repeat(hLevel) + ' ' + content
BlockMd(b) ==
    LET content == Trim(Concat([n \in 1..Len(b.kids) |-> InlineMd(b.kids[n])]))
    IN  IF b.tag = "h" THEN Hashes(b.level) \o <<" ">> \o content ELSE content

\* turndownService.turndown: blocks separated by a blank line, result trimmed
Turndown(html) ==
    Trim(JoinWith([b \in 1..Len(html) |-> BlockMd(html[b])], <<NL, NL>>))

SlateHTMLFragment(c) ==
    UnescapeUnderscore(Turndown(convertKatexToMarkdown(
        IF Has(c, "html") THEN c.html ELSE <<>>)))

----------------------------------------------------------------------------
(* Simple renderers                                                        *)

StripNewlines(s) == SelectSeq(s, LAMBDA t : t # NL)

\* fixLatex: the backslash replacement maps every backslash to itself
fixLatex(text) == <<"$$">> \o StripNewlines(text) \o <<"$$", NL>>

\* CodeFragment with the solution code fenced untrimmed
CodeFragmentUntrimmedSolution(c) ==
    LET lang == OrElse(c, "language", <<>>)
        caption == IF OrElse(c, "caption", <<>>) # <<>>
                   THEN <<"**">> \o c.caption \o <<"**", NL, NL>>
                   ELSE <<>>
        learner == caption \o Fence(lang, Trim(OrElse(c, "content", <<>>)))
        solutionCode == OrElse(c, "solutionContent", <<>>)
    IN  IF Flag(c, "showSolution") /\ Trim(solutionCode) # <<>>
        THEN learner \o Details(SolutionTitle, lang, solutionCode)
        ELSE learner

\* CodeFragment without the showSolution test
CodeFragmentIgnoresShowSolution(c) ==
    LET lang == OrElse(c, "language", <<>>)
        caption == IF OrElse(c, "caption", <<>>) # <<>>
                   THEN <<"**">> \o c.caption \o <<"**", NL, NL>>
                   ELSE <<>>
        learner == caption \o Fence(lang, Trim(OrElse(c, "content", <<>>)))
        solutionCode == OrElse(c, "solutionContent", <<>>)
    IN  IF Trim(solutionCode) # <<>>
        THEN learner \o Details(SolutionTitle, lang, Trim(solutionCode))
        ELSE learner

CodeFragment(c) ==
    LET lang == OrElse(c, "language", <<>>)
        caption == IF OrElse(c, "caption", <<>>) # <<>>
                   THEN <<"**">> \o c.caption \o <<"**", NL, NL>>
                   ELSE <<>>
        learnerCode == OrElse(c, "content", <<>>)
        solutionCode == OrElse(c, "solutionContent", <<>>)
        showSolution == Flag(c, "showSolution")
        learner == caption \o Fence(lang, Trim(learnerCode))
    IN  IF showSolution /\ Trim(solutionCode) # <<>>
        THEN learner \o Details(SolutionTitle, lang, Trim(solutionCode))
        ELSE learner

ColumnsComps(c) == IF Has(c, "comps") THEN c.comps ELSE <<>>

IsMarkdownCol(col) == Has(col, "type") /\ col.type = "MarkdownEditor"

\* A Columns renderer that stops at the first sub-component of another type.
ColumnsFragmentStopsAtOther(c) ==
    LET comps == ColumnsComps(c)
        others == {k \in 1..Len(comps) : ~IsMarkdownCol(comps[k])}
        stop == IF others = {} THEN Len(comps) + 1
                ELSE CHOOSE k \in others : \A m \in others : k <= m
    IN  Concat([k \in 1..(stop - 1) |-> Interp(comps[k].content, "text") \o <<NL, NL>>])

ColumnsFragment(c) ==
    LET comps == ColumnsComps(c)
    IN  Concat([k \in 1..Len(comps) |->
                  IF IsMarkdownCol(comps[k])
                  THEN Interp(comps[k].content, "text") \o <<NL, NL>>
                  ELSE <<>>])

ColumnsLog(c) ==
    LET comps == ColumnsComps(c)
        skipped == SelectSeq(comps, LAMBDA col : ~IsMarkdownCol(col))
    IN  [k \in 1..Len(skipped) |->
            <<" Skipping column sub-type:",
              IF Has(skipped[k], "type") THEN skipped[k].type ELSE "undefined">>]

QuizOption(opt) ==
    <<"- ", IF Flag(opt, "correct") THEN "[x]" ELSE "[ ]", " ">>
        \o Interp(opt, "text") \o <<NL>>

\* A question renderer that numbers the questions from zero.
QuizQuestionFromZero(q, n) ==
    <<"**Q", ToString(n - 1), ": ">> \o Interp(q, "questionText") \o <<"**", NL>>
        \o Concat([k \in 1..Len(q.questionOptions) |->
                      QuizOption(q.questionOptions[k])])
        \o <<NL>>

QuizQuestion(q, n) ==
    <<"**Q", ToString(n), ": ">> \o Interp(q, "questionText") \o <<"**", NL>>
        \o Concat([k \in 1..Len(q.questionOptions) |->
                      QuizOption(q.questionOptions[k])])
        \o <<NL>>

QuizFragment(quiz) ==
    <<"### Quiz: ">> \o OrElse(quiz, "title", <<>>) \o <<NL, NL>>
        \o Concat([n \in 1..Len(quiz.questions) |->
                      QuizQuestion(quiz.questions[n], n)])

MatchPairs(c) ==
    IF Has(c.content, "statements") /\ c.content.statements # <<>>
    THEN c.content.statements[1]
    ELSE <<>>

MatchPair(pair, n) ==
    LET left == IF Trim(Path(pair, "left", "text", <<>>)) # <<>>
                THEN Trim(pair.left.text) ELSE Dash
        right == IF Trim(Path(pair, "right", "text", <<>>)) # <<>>
                 THEN Trim(pair.right.text) ELSE <<"None provided">>
    IN  <<"**", ToString(n), ".**", " ">> \o left \o <<NL, " Match: *">>
            \o right \o <<"*", NL, NL>>
            \o (IF OrElse(pair, "explanation", <<>>) # <<>>
                THEN <<"> Explanation: ">> \o pair.explanation \o <<NL, NL>>
                ELSE <<>>)

MatchTheAnswersFragment(c) ==
    LET pairs == MatchPairs(c)
    IN  <<"### Match the Answers", NL, NL>>
            \o Concat([n \in 1..Len(pairs) |-> MatchPair(pairs[n], n)])

TableRow(row) ==
    <<"| ">> \o JoinWith([k \in 1..Len(row) |-> Trim(Turndown(row[k]))], <<" | ">>)
             \o <<" |">>

\* A table renderer that cuts or pads every data row to the header's width.
TableFragmentHeaderWidth(c) ==
    LET rows == c.data
    IN  IF Len(rows) > 0
        THEN LET width == Len(rows[1])
                 Fit(row) == [k \in 1..width |-> IF k <= Len(row) THEN row[k] ELSE <<>>]
                 header == TableRow(rows[1])
                 divider == <<"| ">> \o JoinWith([k \in 1..width |-> <<"---">>],
                                                 <<" | ">>) \o <<" |">>
                 body == [r \in 1..(Len(rows) - 1) |-> TableRow(Fit(rows[r + 1]))]
             IN  header \o <<NL>> \o divider \o <<NL>> \o JoinWith(body, <<NL>>) \o <<NL>>
        ELSE <<>>

TableFragment(c) ==
    LET rows == c.data
    IN  IF Len(rows) > 0
        THEN LET header == TableRow(rows[1])
                 divider == <<"| ">> \o JoinWith([k \in 1..Len(rows[1]) |-> <<"---">>],
                                                 <<" | ">>) \o <<" |">>
                 body == [r \in 1..(Len(rows) - 1) |-> TableRow(rows[r + 1])]
             IN  header \o <<NL>> \o divider \o <<NL>> \o JoinWith(body, <<NL>>) \o <<NL>>
        ELSE <<>>

----------------------------------------------------------------------------
(* Permutation                                                             *)

\* opt.content?.data?.trim() || placeholder
OptionText(opt) ==
    LET t == Trim(Path(opt, "content", "data", <<>>))
    IN  IF t # <<>> THEN t ELSE Dash

\* Object.fromEntries(options.map(opt => [opt.hashid, text]))
idToTextMap(options) ==
    [k \in 1..Len(options) |-> <<options[k].hashid, OptionText(options[k])>>]

\* property names every plain object inherits from Object.prototype
InheritedKeys == {"constructor", "toString", "valueOf", "hasOwnProperty"}
InheritedValue == <<"function () { [native code] }">>

\* map[key]: the last entry written under key wins; an inherited property
\* is found when the object has no own property of that name
Lookup(map, key) ==
    LET own == SelectSeq(map, LAMBDA e : e[1] = key)
    IN  IF own # <<>> THEN own[Len(own)][2]
        ELSE IF key \in InheritedKeys THEN InheritedValue
        ELSE <<>>

PermutationBullets(options) ==
    Concat([k \in 1..Len(options) |-> <<"- ">> \o OptionText(options[k]) \o <<NL>>])

\* SolutionLine numbered with idx instead of idx + 1
SolutionLineFromZero(map, hashId, n) ==
    LET line == IF Lookup(map, hashId) # <<>> THEN Lookup(map, hashId) ELSE Missing
    IN  <<ToString(n - 1), ". ">> \o line \o <<NL>>

\* idToTextMap[hashId] || '(missing)', numbered idx + 1
SolutionLine(map, hashId, n) ==
    LET line == IF Lookup(map, hashId) # <<>> THEN Lookup(map, hashId) ELSE Missing
    IN  <<ToString(n), ". ">> \o line \o <<NL>>

PermutationFragment(c) ==
    LET prompt == OrElse(c, "question_statement", <<"Reorder the following steps:">>)
        options == IF Has(c, "options") THEN c.options ELSE <<>>
        protectedOrder == IF Has(c, "protected_content") THEN c.protected_content ELSE <<>>
        head == <<"### Reorder the Steps", NL, NL, "**">> \o prompt \o <<"**", NL, NL>>
                    \o PermutationBullets(options)
    IN  IF Len(protectedOrder) > 0
        THEN head \o <<NL, "<details>", NL, "<summary>">> \o SolutionTitle
                  \o <<"</summary>", NL, NL>>
                  \o Concat([n \in 1..Len(protectedOrder) |->
                                SolutionLine(idToTextMap(options), protectedOrder[n], n)])
                  \o <<NL, "</details>", NL>>
        ELSE head

----------------------------------------------------------------------------
(* WebpackBin                                                              *)

\* Object.entries(loaders || {}).find(([key, loader]) => loader.enabled)
RECURSIVE FindEnabled(_)
FindEnabled(entries) ==
    IF entries = <<>> THEN <<>>
    ELSE IF Flag(Head(entries)[2], "enabled") THEN <<Head(entries)>>
    ELSE FindEnabled(Tail(entries))

\* A traversal that collects the leaves of the top level only.
RECURSIVE traverseTopLevel(_)
traverseTopLevel(children) ==
    IF children = <<>> THEN <<>>
    ELSE LET node == Head(children)
             here == IF Flag(node, "leaf") /\ Path(node, "data", "content", <<>>) # <<>>
                     THEN <<[fileName |-> Interp(node, "module"),
                             code     |-> node.data.content,
                             language |-> OrElse(node.data, "language", <<"javascript">>)]>>
                     ELSE <<>>
         IN  here \o traverseTopLevel(Tail(children))

\* traverse: collect leaves with content, descend into nodes with children
RECURSIVE traverse(_)
traverse(children) ==
    IF children = <<>> THEN <<>>
    ELSE LET node == Head(children)
             here == IF Flag(node, "leaf") /\ Path(node, "data", "content", <<>>) # <<>>
                     THEN <<[fileName |-> Interp(node, "module"),
                             code     |-> node.data.content,
                             language |-> OrElse(node.data, "language", <<"javascript">>)]>>
                     ELSE IF Has(node, "children") THEN traverse(node.children)
                     ELSE <<>>
         IN  here \o traverse(Tail(children))

WebpackFiles(c) ==
    traverse(IF Has(c.codeContents, "children") THEN c.codeContents.children ELSE <<>>)

WebpackBinFragment(c) ==
    LET enabledLoader == FindEnabled(IF Has(c, "loaders") THEN c.loaders ELSE <<>>)
        allFiles == WebpackFiles(c)
    IN  <<"### WebpackBin Playground", NL>>
          \o (IF enabledLoader # <<>>
              THEN <<"**Environment:** ">> \o Interp(enabledLoader[1][2], "title") \o <<NL, NL>>
              ELSE <<>>)
          \o Concat([k \in 1..Len(allFiles) |->
                        <<NL>> \o Details(allFiles[k].fileName, allFiles[k].language,
                                          allFiles[k].code)])
          \o (IF Path(c.codeContents, "judge", "evaluationContent", <<>>) # <<>>
              THEN <<NL>> \o Details(<<"Evaluation Code">>, <<"javascript">>,
                                     c.codeContents.judge.evaluationContent)
              ELSE <<>>)
          \o (IF Path(c, "dockerJob", "name", <<>>) # <<>>
              THEN <<NL, "_This widget runs in a **Live Docker container**: ">>
                       \o c.dockerJob.name \o <<"_", NL>>
              ELSE <<>>)

----------------------------------------------------------------------------
(* CodeTest                                                                *)
(* A mapping is the sequence of its <<key, value>> entries in iteration    *)
(* order.                                                                  *)

\* additionalFiles[lang] || {}
ExtrasOf(additionalFiles, lang) ==
    LET own == SelectSeq(additionalFiles, LAMBDA e : e[1] = lang)
    IN  IF own # <<>> THEN own[Len(own)][2] ELSE <<>>

\* A language renderer that puts the additional files before the main file.
CodeTestLanguageExtrasFirst(lang, langBlock, additionalFiles) ==
    LET lower == ToLowerCase(lang)
        mainFileName == OrElse(langBlock, "mainFileName", <<"main.">> \o lower)
        mainCode == Path(langBlock, "codeContents", "content", <<>>)
        extras == ExtrasOf(additionalFiles, lang)
    IN  <<NL, "#### Language: ">> \o lang \o <<NL>>
          \o Concat([k \in 1..Len(extras) |->
                LET extraCode == Path(extras[k][2], "codeContents", "content", <<>>)
                IN  IF extraCode # <<>>
                    THEN <<NL>> \o Details(extras[k][1], lower, extraCode)
                    ELSE <<>>])
          \o (IF mainCode # <<>>
              THEN <<NL>> \o Details(mainFileName, lower, mainCode)
              ELSE <<>>)

CodeTestLanguage(lang, langBlock, additionalFiles) ==
    LET lower == ToLowerCase(lang)
        mainFileName == OrElse(langBlock, "mainFileName", <<"main.">> \o lower)
        mainCode == Path(langBlock, "codeContents", "content", <<>>)
        extras == ExtrasOf(additionalFiles, lang)
    IN  <<NL, "#### Language: ">> \o lang \o <<NL>>
          \o (IF mainCode # <<>>
              THEN <<NL>> \o Details(mainFileName, lower, mainCode)
              ELSE <<>>)
          \o Concat([k \in 1..Len(extras) |->
                LET extraCode == Path(extras[k][2], "codeContents", "content", <<>>)
                IN  IF extraCode # <<>>
                    THEN <<NL>> \o Details(extras[k][1], lower, extraCode)
                    ELSE <<>>])

CodeTestFragment(c) ==
    LET languageContents == IF Has(c, "languageContents") THEN c.languageContents ELSE <<>>
        additionalFiles == IF Has(c, "additionalFiles") THEN c.additionalFiles ELSE <<>>
    IN  <<"### CodeTest: ">> \o OrElse(c, "caption", <<>>) \o <<NL>>
          \o Concat([k \in 1..Len(languageContents) |->
                        CodeTestLanguage(languageContents[k][1], languageContents[k][2],
                                         additionalFiles)])
          \o (IF Path(c, "solution", "content", <<>>) # <<>>
              THEN <<NL>> \o Details(<<"Solution">>,
                                     ToLowerCase(OrElse(c.solution, "language", <<"text">>)),
                                     c.solution.content)
              ELSE <<>>)

----------------------------------------------------------------------------
(* Component dispatcher: one iteration of the for-of loop                  *)

TypeOf(x) == IF Has(x, "type") THEN x.type ELSE "undefined"

DroppedTypes == {"PromptAI", "LazyLoadPlaceholder", "Notepad", "DrawIOWidget"}

HandledTypes ==
    {"SlateHTML", "TableHTML", "Latex", "MarkdownEditor", "Code", "Columns", "Quiz",
     "WebpackBin", "MatchTheAnswers", "Table", "Permutation", "CodeTest"}

\* the first sub-component of a Columns block whose rendering throws (0: none)
RECURSIVE FirstBadCol(_, _)
FirstBadCol(comps, k) ==
    IF k > Len(comps) THEN 0
    ELSE IF IsMarkdownCol(comps[k]) /\ ~Has(comps[k], "content") THEN k
    ELSE FirstBadCol(comps, k + 1)

\* RenderThrows with an else branch that throws on an unknown type
RenderThrowsOnUnknown(x) ==
    LET t == TypeOf(x)
    IN  IF t \notin HandledTypes THEN t \notin DroppedTypes
        ELSE IF ~Has(x, "content") THEN TRUE
        ELSE CASE t \in {"Latex", "MarkdownEditor"} -> ~Has(x.content, "text")
               [] t = "Columns" -> FirstBadCol(ColumnsComps(x.content), 1) # 0
               [] t = "Quiz" ->
                    IF ~Has(x.content, "questions") THEN TRUE
                    ELSE \E n \in 1..Len(x.content.questions) :
                            ~Has(x.content.questions[n], "questionOptions")
               [] t = "WebpackBin" -> ~Has(x.content, "codeContents")
               [] t = "MatchTheAnswers" -> ~Has(x.content, "content")
               [] t = "Table" -> ~Has(x.content, "data")
               [] OTHER -> FALSE

\* the iteration reads a property of undefined, or calls a method on it
\* (a TypeError): a required nested field is absent
RenderThrows(x) ==
    LET t == TypeOf(x)
    IN  IF t \notin HandledTypes THEN FALSE
        ELSE IF ~Has(x, "content") THEN TRUE
        ELSE CASE t \in {"Latex", "MarkdownEditor"} -> ~Has(x.content, "text")
               [] t = "Columns" -> FirstBadCol(ColumnsComps(x.content), 1) # 0
               [] t = "Quiz" ->
                    IF ~Has(x.content, "questions") THEN TRUE
                    ELSE \E n \in 1..Len(x.content.questions) :
                            ~Has(x.content.questions[n], "questionOptions")
               [] t = "WebpackBin" -> ~Has(x.content, "codeContents")
               [] t = "MatchTheAnswers" -> ~Has(x.content, "content")
               [] t = "Table" -> ~Has(x.content, "data")
               [] OTHER -> FALSE

\* Normalize with the append left out: the text is pushed as rendered
NormalizeSkipped(markdownContent) == markdownContent

\* if (!markdownContent.endsWith("\n")) markdownContent += "\n"
Normalize(markdownContent) ==
    IF EndsWithNL(markdownContent) THEN markdownContent ELSE markdownContent \o <<NL>>

\* the push at the end of the loop body, after the normalization
CommonPush(x, markdownContent) ==
    <<[site |-> "common", item |-> <<TypeOf(x), Normalize(markdownContent)>>]>>

\* the push inside a branch, of the branch's own markdown variable
DirectPush(x, markdown) ==
    <<[site |-> "direct", item |-> <<TypeOf(x), markdown>>]>>

\* what one iteration appends to structuredContent, per branch
SlateHTMLPushes(x) == CommonPush(x, SlateHTMLFragment(x.content))
LatexPushes(x) == CommonPush(x, fixLatex(x.content.text))
MarkdownEditorPushes(x) == CommonPush(x, x.content.text)
CodePushes(x) == CommonPush(x, CodeFragment(x.content))
DroppedPushes(x) == <<>>
ColumnsPushes(x) == CommonPush(x, ColumnsFragment(x.content))
\* the Quiz branch pushing its own text, as the WebpackBin branch does
QuizPushesDirect(x) == DirectPush(x, QuizFragment(x.content)) \o CommonPush(x, <<>>)

QuizPushes(x) == CommonPush(x, QuizFragment(x.content))
WebpackBinPushes(x) ==
    DirectPush(x, WebpackBinFragment(x.content)) \o CommonPush(x, <<>>)
MatchTheAnswersPushes(x) == CommonPush(x, MatchTheAnswersFragment(x.content))
TablePushes(x) == CommonPush(x, TableFragment(x.content))
PermutationPushes(x) == CommonPush(x, PermutationFragment(x.content))
\* the CodeTest branch ending the iteration after its own push
CodeTestPushesOnce(x) == DirectPush(x, CodeTestFragment(x.content))

CodeTestPushes(x) ==
    DirectPush(x, CodeTestFragment(x.content)) \o CommonPush(x, <<>>)
\* the else branch pushing the empty text before the normalization
UnhandledPushesRaw(x) == DirectPush(x, <<>>)

\* the else branch treated like a dropped type: no push for the component
UnhandledPushesNothing(x) == <<>>

UnhandledPushes(x) == CommonPush(x, <<>>)

\* the if / else-if chain
Pushes(x) ==
    LET t == TypeOf(x)
    IN  CASE t \in {"SlateHTML", "TableHTML"} -> SlateHTMLPushes(x)
          [] t = "Latex" -> LatexPushes(x)
          [] t = "MarkdownEditor" -> MarkdownEditorPushes(x)
          [] t = "Code" -> CodePushes(x)
          [] t \in DroppedTypes -> DroppedPushes(x)
          [] t = "Columns" -> ColumnsPushes(x)
          [] t = "Quiz" -> QuizPushes(x)
          [] t = "WebpackBin" -> WebpackBinPushes(x)
          [] t = "MatchTheAnswers" -> MatchTheAnswersPushes(x)
          [] t = "Table" -> TablePushes(x)
          [] t = "Permutation" -> PermutationPushes(x)
          [] t = "CodeTest" -> CodeTestPushes(x)
          [] OTHER -> UnhandledPushes(x)

\* console.log lines of one iteration
Logs(x) ==
    LET t == TypeOf(x)
    IN  IF t = "Columns" THEN ColumnsLog(x.content)
        ELSE IF t \in HandledTypes \cup DroppedTypes THEN <<>>
        ELSE <<<<"Unhandled type:", t>>>>

\* the title fragment pushed before the loop
TitleFragment(summary) ==
    <<"# ">> \o Interp(summary, "title") \o <<NL>>
        \o Interp(summary, "description") \o <<NL, "---", NL>>

\* the join with a blank line as separator
JoinFragmentsBlankLine(content) ==
    JoinWith([k \in 1..Len(content) |-> content[k][2]], <<NL, NL>>)

\* structuredContent.map(item => item[1]).join('\n')
JoinFragments(content) ==
    JoinWith([k \in 1..Len(content) |-> content[k][2]], <<NL>>)

----------------------------------------------------------------------------
(* Input documents                                                         *)

MaxComps == 2      \* longest component list built from CoreComponents

Text(t) == [kind |-> "text", text |-> t]
P(kids) == [tag |-> "p", level |-> 0, kids |-> kids]
H(n, kids) == [tag |-> "h", level |-> n, kids |-> kids]
Cell(t) == <<P(<<Text(t)>>)>>

HtmlPlain == <<P(<<Text(<<"Hello">>)>>)>>
HtmlHeading == <<H(2, <<Text(<<"Problem">>)>>), P(<<Text(<<"snake", "_", "case", " ">>)>>)>>
HtmlKatex ==
    <<P(<<Text(<<"x", " ">>),
          [kind |-> "katex",
           kids |-> <<[text |-> <<"t">>], [equation |-> <<"E">>, text |-> <<"u">>]>>]>>)>>

\* <katex equation="E">t</katex>, <katex></katex>, <katex> t </katex>
HtmlKatexOwn ==
    <<P(<<Text(<<"x", " ">>),
          [kind |-> "katex", equation |-> <<"E">>, kids |-> <<[text |-> <<"t">>]>>]>>)>>
HtmlKatexEmpty == <<P(<<Text(<<"x", " ">>), [kind |-> "katex", kids |-> <<>>]>>)>>
HtmlKatexText ==
    <<P(<<[kind |-> "katex", kids |-> <<[text |-> <<" ", "t">>], [text |-> <<" ">>]>>],
          Text(<<" ", "y">>)>>)>>

Comp(t, c) == [type |-> t, content |-> c]

SlateSamples ==
    {Comp("SlateHTML", [html |-> HtmlPlain]), Comp("SlateHTML", [html |-> HtmlHeading]),
     Comp("TableHTML", [html |-> HtmlKatex]), Comp("SlateHTML", [html |-> <<>>]),
     Comp("SlateHTML", [html |-> HtmlKatexOwn]), Comp("SlateHTML", [html |-> HtmlKatexEmpty]),
     Comp("SlateHTML", [html |-> HtmlKatexText])}

LatexSamples ==
    {Comp("Latex", [text |-> <<"\\frac", NL, "x">>]), Comp("Latex", [text |-> <<>>]),
     Comp("Latex", [caption |-> <<"no text">>])}

MarkdownSamples ==
    {Comp("MarkdownEditor", [text |-> t]) :
        t \in {<<"a">>, <<"a", NL>>, <<"a", NL, NL>>, <<>>, <<NL, NL>>}}
    \cup {Comp("MarkdownEditor", [caption |-> <<"no text">>]), [type |-> "MarkdownEditor"]}

CodeSamples ==
    {Comp("Code", [language |-> <<"go">>, content |-> lc, solutionContent |-> sc,
                   showSolution |-> b]) :
        lc \in {<<"x">>, <<" ", "x", NL>>},
        sc \in {<<>>, <<"s">>, <<NL, "s", " ">>, <<" ", NL>>},
        b \in BOOLEAN}
    \cup {Comp("Code", [caption |-> <<"Cap">>, language |-> <<"go">>, content |-> <<"x">>,
                        solutionContent |-> <<"s">>, showSolution |-> TRUE]),
          Comp("Code", [content |-> <<"x">>, solutionContent |-> <<"s">>]),
          Comp("Code", [showSolution |-> TRUE]),
          [type |-> "Code"]}

DroppedSamples ==
    {Comp(t, [text |-> <<"hidden">>]) : t \in DroppedTypes} \cup {[type |-> "Notepad"]}

UnhandledSamples ==
    {Comp("Video", [text |-> <<"v">>]), [type |-> "Video"], [content |-> [text |-> <<"v">>]]}

ColumnsSamples ==
    {Comp("Columns", [comps |-> <<Comp("MarkdownEditor", [text |-> <<"l">>]),
                                  Comp("Image", [text |-> <<"i">>]),
                                  Comp("MarkdownEditor", [text |-> <<"r", NL>>])>>]),
     Comp("Columns", [comps |-> <<Comp("Image", [text |-> <<"i">>])>>]),
     Comp("Columns", [comps |-> <<Comp("MarkdownEditor", [caption |-> <<"c">>])>>]),
     Comp("Columns", [comps |-> <<Comp("Image", [text |-> <<"i">>]),
                                  [type |-> "MarkdownEditor"]>>]),
     Comp("Columns", [caption |-> <<"no comps">>])}

Opt(t, c) == [text |-> t, correct |-> c]

QuizSamples ==
    {Comp("Quiz", [title |-> <<"Q">>,
                   questions |-> <<[questionText |-> <<"q1">>,
                                    questionOptions |-> <<Opt(<<"X">>, TRUE),
                                                          Opt(<<"Y">>, FALSE)>>],
                                   [questionText |-> <<"q2">>,
                                    questionOptions |-> <<Opt(<<"Z">>, FALSE)>>]>>]),
     Comp("Quiz", [questions |-> <<[questionText |-> <<"q1">>,
                                    questionOptions |-> <<[text |-> <<"X">>]>>]>>]),
     Comp("Quiz", [title |-> <<"Q">>, questions |-> <<>>]),
     Comp("Quiz", [title |-> <<"Q">>]),
     Comp("Quiz", [questions |-> <<[questionText |-> <<"q1">>]>>])}

Leaf(m, c) == [leaf |-> TRUE, module |-> m, data |-> [content |-> c]]

WebpackSamples ==
    {Comp("WebpackBin",
          [loaders |-> <<<<"babel", [enabled |-> FALSE, title |-> <<"Babel">>]>>,
                         <<"react", [enabled |-> TRUE, title |-> <<"React">>]>>>>,
           codeContents |->
              [children |-> <<Leaf(<<"index.js">>, <<"i">>),
                              [module |-> <<"src">>,
                               children |-> <<[leaf |-> TRUE, module |-> <<"app.css">>,
                                               data |-> [content |-> <<"c">>,
                                                         language |-> <<"css">>]],
                                              Leaf(<<"empty.js">>, <<>>)>>],
                              Leaf(<<"last.js">>, <<"l">>)>>,
               judge |-> [evaluationContent |-> <<"e">>]],
           dockerJob |-> [name |-> <<"job">>]]),
     Comp("WebpackBin", [loaders |-> <<<<"react", [enabled |-> TRUE, title |-> <<"React">>]>>>>,
                         codeContents |-> [children |-> <<>>]]),
     Comp("WebpackBin", [codeContents |-> [judge |-> [evaluationContent |-> <<"e">>]]]),
     Comp("WebpackBin",
          [codeContents |->
              [children |-> <<[leaf |-> TRUE, module |-> <<"pkg.js">>,
                               data |-> [content |-> <<"p">>],
                               children |-> <<Leaf(<<"inner.js">>, <<"n">>)>>],
                              [leaf |-> TRUE, module |-> <<"dir">>,
                               children |-> <<Leaf(<<"deep.js">>, <<"d">>)>>],
                              [module |-> <<"README">>],
                              Leaf(<<"last.js">>, <<"l">>)>>]]),
     Comp("WebpackBin", [loaders |-> <<>>])}

Pair(l, r) == [left |-> [text |-> l], right |-> [text |-> r]]

MatchSamples ==
    {Comp("MatchTheAnswers",
          [content |-> [statements |-> <<<<Pair(<<" ", "L">>, <<"R">>),
                                          [left |-> [text |-> <<" ">>],
                                           explanation |-> <<"why">>]>>>>]]),
     Comp("MatchTheAnswers", [content |-> [statements |-> <<>>]]),
     Comp("MatchTheAnswers", [caption |-> <<"no content">>])}

TableSamples ==
    {Comp("Table", [data |-> <<<<Cell(<<"A">>), Cell(<<"B">>)>>,
                               <<Cell(<<"1">>), Cell(<<"2">>)>>>>]),
     Comp("Table", [data |-> <<<<Cell(<<"A">>), Cell(<<"B">>)>>>>]),
     Comp("Table", [data |-> <<<<Cell(<<"A">>), Cell(<<"B">>)>>,
                               <<Cell(<<" ", "1">>)>>,
                               <<Cell(<<"1">>), Cell(<<"2">>), Cell(<<"3">>)>>>>]),
     Comp("Table", [data |-> <<>>]),
     Comp("Table", [caption |-> <<"no data">>])}

Option(h, d) == [hashid |-> h, content |-> [data |-> d]]

PermutationSamples ==
    {Comp("Permutation", [options |-> <<Option("a", <<"Step1">>), Option("b", <<"Step2">>)>>,
                          protected_content |-> k]) :
        k \in {<<"b", "a">>, <<"a", "zz", "b">>, <<>>, <<"constructor">>, <<"a", "a">>}}
    \cup {Comp("Permutation", [question_statement |-> <<"Sort">>,
                               options |-> <<Option("a", <<" ", "Step1", NL>>),
                                             [hashid |-> "b"],
                                             Option("c", <<" ">>)>>,
                               protected_content |-> <<"c", "b", "a">>]),
          Comp("Permutation", [options |-> <<Option("a", <<"Step1">>),
                                             Option("a", <<"Step2">>)>>,
                               protected_content |-> <<"a">>]),
          Comp("Permutation", [protected_content |-> <<"a">>]),
          Comp("Permutation", [options |-> <<Option("a", <<"Step1">>)>>])}

Lang(file, code) == [mainFileName |-> file, codeContents |-> [content |-> code]]

CodeTestSamples ==
    {Comp("CodeTest",
          [caption |-> <<"Cap">>,
           languageContents |-> <<<<<<"Python">>, [codeContents |-> [content |-> <<"p">>]]>>,
                                  <<<<"Java">>, Lang(<<"Main.java">>, <<"j">>)>>>>,
           additionalFiles |-> <<<<<<"Java">>,
                                   <<<<<<"Util.java">>, [codeContents |-> [content |-> <<"u">>]]>>,
                                     <<<<"Empty.java">>, [codeContents |-> [content |-> <<>>]]>>>>>>>>,
           solution |-> [language |-> <<"Java">>, content |-> <<"sol">>]]),
     Comp("CodeTest", [languageContents |-> <<<<<<"GO">>, [mainFileName |-> <<"m.go">>]>>>>,
                       solution |-> [content |-> <<"sol">>]]),
     Comp("CodeTest", [caption |-> <<"Cap">>])}

AllComponents ==
    SlateSamples \cup LatexSamples \cup MarkdownSamples \cup CodeSamples
        \cup DroppedSamples \cup UnhandledSamples \cup ColumnsSamples \cup QuizSamples
        \cup WebpackSamples \cup MatchSamples \cup TableSamples \cup PermutationSamples
        \cup CodeTestSamples

\* the components that documents of several components are built from
CoreComponents ==
    {Comp("SlateHTML", [html |-> HtmlHeading]),
     Comp("MarkdownEditor", [text |-> <<"a">>]),
     Comp("MarkdownEditor", [text |-> <<"a", NL, NL>>]),
     Comp("Code", [language |-> <<"go">>, content |-> <<" ", "x", NL>>,
                   solutionContent |-> <<"s">>, showSolution |-> TRUE]),
     Comp("Notepad", [text |-> <<"hidden">>]),
     Comp("Video", [text |-> <<"v">>]),
     Comp("Quiz", [title |-> <<"Q">>,
                   questions |-> <<[questionText |-> <<"q1">>,
                                    questionOptions |-> <<Opt(<<"X">>, TRUE)>>]>>]),
     Comp("Quiz", [title |-> <<"Q">>]),
     Comp("WebpackBin", [loaders |-> <<<<"react", [enabled |-> TRUE, title |-> <<"React">>]>>>>,
                         codeContents |-> [children |-> <<Leaf(<<"index.js">>, <<"i">>)>>]]),
     Comp("Table", [data |-> <<<<Cell(<<"A">>), Cell(<<"B">>)>>>>]),
     Comp("CodeTest", [caption |-> <<"Cap">>])}

Summaries == {[title |-> <<"T">>, description |-> <<"D">>], [description |-> <<"D">>]}

Documents ==
    UNION {[1..n -> CoreComponents] : n \in 0..MaxComps}
        \cup {<<x>> : x \in AllComponents}

----------------------------------------------------------------------------
(* fetchLessonAndParse from the title push to its return                   *)

\* a fragment list that is kept from one call to the next
StartContentKept(previous, summary) ==
    previous \o <<<<"SlateHTML", TitleFragment(summary)>>>>

\* const structuredContent = []; structuredContent.push(["SlateHTML", ...]):
\* the list is a local of the call and starts with the title fragment
StartContent(previous, summary) == <<<<"SlateHTML", TitleFragment(summary)>>>>

\* the state in which fetchLessonAndParse has read the document `doc` and
\* pushed the title fragment, both browsers of the scrape being closed
InitRender(docs) ==
    /\ variant \in {"parser", "my_parser"}
    /\ json \in docs
    /\ pc = "loop"
    /\ i = 1
    /\ structuredContent = StartContent(<<>>, json.summary)
    /\ pushSite = <<"title">>
    /\ log = <<>>
    /\ fullMarkdown = <<>>
    /\ lessonFile = [written |-> FALSE, data |-> <<>>]
    /\ posts = <<>>
    /\ errorCalls = <<>>
    /\ outcome = "running"
    /\ browsers = [scrape |-> "closed", json |-> "closed"]
    /\ calls = 1
    /\ returned = <<>>
    /\ now = 0

LessonDocuments ==
    {[summary |-> s, components |-> d] : s \in Summaries, d \in Documents}

Init == InitRender(LessonDocuments)

InLoop == pc = "loop" /\ i <= Len(json.components)

Cur == json.components[i]

\* the loop body ran to its end: its pushes and log lines take effect
Emit(pushes) ==
    /\ structuredContent' =
           structuredContent \o [k \in 1..Len(pushes) |-> pushes[k].item]
    /\ pushSite' = pushSite \o [k \in 1..Len(pushes) |-> pushes[k].site]
    /\ log' = log \o Logs(Cur)
    /\ i' = i + 1
    /\ UNCHANGED <<variant, json, pc, fullMarkdown, lessonFile, posts>>
    /\ UNCHANGED aroundLoop

\* the branch for the types in `types` is taken and does not throw
Takes(types) == InLoop /\ TypeOf(Cur) \in types /\ ~RenderThrows(Cur)

RenderSlateHTML ==
    /\ Takes({"SlateHTML", "TableHTML"})
    /\ Emit(SlateHTMLPushes(Cur))

RenderLatex ==
    /\ Takes({"Latex"})
    /\ Emit(LatexPushes(Cur))

RenderMarkdownEditor ==
    /\ Takes({"MarkdownEditor"})
    /\ Emit(MarkdownEditorPushes(Cur))

RenderCode ==
    /\ Takes({"Code"})
    /\ Emit(CodePushes(Cur))

SkipDropped ==
    /\ Takes(DroppedTypes)
    /\ Emit(DroppedPushes(Cur))

RenderColumns ==
    /\ Takes({"Columns"})
    /\ Emit(ColumnsPushes(Cur))

RenderQuiz ==
    /\ Takes({"Quiz"})
    /\ Emit(QuizPushes(Cur))

RenderWebpackBin ==
    /\ Takes({"WebpackBin"})
    /\ Emit(WebpackBinPushes(Cur))

RenderMatchTheAnswers ==
    /\ Takes({"MatchTheAnswers"})
    /\ Emit(MatchTheAnswersPushes(Cur))

RenderTable ==
    /\ Takes({"Table"})
    /\ Emit(TablePushes(Cur))

RenderPermutation ==
    /\ Takes({"Permutation"})
    /\ Emit(PermutationPushes(Cur))

RenderCodeTest ==
    /\ Takes({"CodeTest"})
    /\ Emit(CodeTestPushes(Cur))

Unhandled ==
    /\ InLoop
    /\ TypeOf(Cur) \notin HandledTypes \cup DroppedTypes
    /\ Emit(UnhandledPushes(Cur))

\* console.log lines written before the iteration throws
LogsBeforeThrow(x) ==
    IF TypeOf(x) = "Columns" /\ Has(x, "content")
    THEN ColumnsLog([comps |-> SubSeq(ColumnsComps(x.content), 1,
                                     FirstBadCol(ColumnsComps(x.content), 1) - 1)])
    ELSE <<>>

\* the body postErrorToWebhook POSTs
ErrorReport(reason) == [status |-> "failed", reason |-> reason, timestamp |-> now]

\* an error report that does not carry the reason it was called with
PostErrorUnnamed(reason) ==
    /\ errorCalls' = Append(errorCalls, "failed")
    /\ \E delivered \in BOOLEAN :
           posts' = IF delivered THEN Append(posts, ErrorReport("failed")) ELSE posts

\* await postErrorToWebhook({ message, reason, htmlPreview }): the POST is
\* delivered or its failure is caught and logged inside the function
PostError(reason) ==
    /\ errorCalls' = Append(errorCalls, reason)
    /\ \E delivered \in BOOLEAN :
           posts' = IF delivered THEN Append(posts, ErrorReport(reason)) ELSE posts

\* the iteration throws: fetchLessonAndParse rejects; parser.mjs logs the
\* error in the top-level catch, my_parser.mjs reports it from the catch of
\* scrapeWithAuth
RenderFails ==
    /\ InLoop
    /\ RenderThrows(Cur)
    /\ pc' = "failed"
    /\ log' = log \o LogsBeforeThrow(Cur)
    /\ IF variant = "my_parser"
       THEN PostError("lesson_parse_failed") /\ outcome' = "null"
       ELSE UNCHANGED <<posts, errorCalls>> /\ outcome' = "rejected"
    /\ UNCHANGED <<variant, json, i, structuredContent, pushSite, fullMarkdown,
                   lessonFile, browsers, calls, returned, now>>

\* the body POSTed with the rendered document
ResultReport(markdown) ==
    [source |-> "github-ci", fullMarkdown |-> markdown, timestamp |-> now]

\* after the loop: join, then writeFile (parser.mjs) or the webhook POST
\* (my_parser.mjs), then return fullMarkdown
Finish ==
    /\ pc = "loop"
    /\ i > Len(json.components)
    /\ fullMarkdown' = JoinFragments(structuredContent)
    /\ lessonFile' = IF variant = "parser"
                     THEN [written |-> TRUE, data |-> fullMarkdown']
                     ELSE lessonFile
    /\ posts' = IF variant = "my_parser"
                THEN Append(posts, ResultReport(fullMarkdown'))
                ELSE posts
    /\ pc' = "done"
    /\ outcome' = "metadata"
    /\ returned' = Append(returned, <<json, fullMarkdown'>>)
    /\ UNCHANGED <<variant, json, i, structuredContent, pushSite, log, errorCalls,
                   browsers, calls, now>>

\* my_parser.mjs: the fetch that POSTs the rendered document rejects, so
\* fetchLessonAndParse rejects after the join and the catch of
\* scrapeWithAuth reports the failure
ResultPostFails ==
    /\ pc = "loop"
    /\ i > Len(json.components)
    /\ variant = "my_parser"
    /\ fullMarkdown' = JoinFragments(structuredContent)
    /\ PostError("lesson_parse_failed")
    /\ pc' = "postFailed"
    /\ outcome' = "null"
    /\ UNCHANGED <<variant, json, i, structuredContent, pushSite, log, lessonFile,
                   browsers, calls, returned, now>>

Next ==
    \/ RenderSlateHTML
    \/ RenderLatex
    \/ RenderMarkdownEditor
    \/ RenderCode
    \/ SkipDropped
    \/ RenderColumns
    \/ RenderQuiz
    \/ RenderWebpackBin
    \/ RenderMatchTheAnswers
    \/ RenderTable
    \/ RenderPermutation
    \/ RenderCodeTest
    \/ Unhandled
    \/ RenderFails
    \/ Finish
    \/ ResultPostFails

Spec == Init /\ [][Next]_vars

----------------------------------------------------------------------------
(* scrapeWithAuth of my_parser.mjs, from the launch of its browser to its  *)
(* return.  pc is the position in scrapeWithAuth until fetchLessonAndParse  *)
(* starts, then the position in fetchLessonAndParse; where the function    *)
(* returns, pc keeps the name of the return site.  An HTML page is the     *)
(* record of what the metadata reads from it: whether JSDOM parses it, the *)
(* text of its title element and the content of its og:image element.      *)

Pages ==
    {[parses |-> FALSE],
     [parses |-> TRUE, title |-> <<"T">>, ogImage |-> <<"https://cdn/c1", "/image", "/x.png">>],
     [parses |-> TRUE, ogImage |-> <<"https://cdn/c1", "/image", "/x.png">>],
     [parses |-> TRUE, title |-> <<"T">>],
     [parses |-> TRUE, title |-> <<"T">>, ogImage |-> <<"/image", "/x.png">>]}

\* ogImageUrl.split('/image')[0]
BeforeImage(url) ==
    LET at == {p \in 1..Len(url) : url[p] = "/image"}
    IN  IF at = {} THEN url
        ELSE SubSeq(url, 1, (CHOOSE p \in at : \A q \in at : p <= q) - 1)

Metadata(html) ==
    LET ogImageUrl == IF Has(html, "ogImage") THEN html.ogImage ELSE <<>>
    IN  [title |-> IF Has(html, "title") THEN html.title ELSE <<>>,
         ogImage |-> ogImageUrl,
         baseImagePath |-> BeforeImage(ogImageUrl)]

\* !metadata.title || !baseImagePath
MetadataMissing(metadata) == metadata.title = <<>> \/ metadata.baseImagePath = <<>>

\* the document variable before a lesson has been fetched
NoDocument == [summary |-> [description |-> <<>>], components |-> <<>>]

InitScrape ==
    /\ variant = "my_parser"
    /\ json = NoDocument
    /\ pc = "start"
    /\ i = 1
    /\ structuredContent = <<>>
    /\ pushSite = <<>>
    /\ log = <<>>
    /\ fullMarkdown = <<>>
    /\ lessonFile = [written |-> FALSE, data |-> <<>>]
    /\ posts = <<>>
    /\ errorCalls = <<>>
    /\ outcome = "running"
    /\ browsers = [scrape |-> "none", json |-> "none"]
    /\ calls = 0
    /\ returned = <<>>
    /\ now = 0

\* what the steps of scrapeWithAuth before the render leave alone
aroundScrape ==
    <<variant, json, i, structuredContent, pushSite, log, fullMarkdown, lessonFile,
      calls, returned, now>>

\* puppeteerExtra.launch, newPage, setExtraHTTPHeaders, evaluateOnNewDocument
Launch ==
    /\ pc = "start"
    /\ browsers' = [browsers EXCEPT !.scrape = "open"]
    /\ pc' = "launched"
    /\ UNCHANGED <<posts, errorCalls, outcome>>
    /\ UNCHANGED aroundScrape

\* puppeteerExtra.launch rejects: scrapeWithAuth rejects, the top-level catch logs
LaunchFails ==
    /\ pc = "start"
    /\ pc' = "launchFailed"
    /\ outcome' = "rejected"
    /\ UNCHANGED <<posts, errorCalls, browsers>>
    /\ UNCHANGED aroundScrape

\* the first page.goto succeeds, or it fails and the retry succeeds
Navigate ==
    /\ pc = "launched"
    /\ pc' = "navigated"
    /\ UNCHANGED <<posts, errorCalls, outcome, browsers>>
    /\ UNCHANGED aroundScrape

\* both navigations fail: report, close the browser, return null
NavigationFails ==
    /\ pc = "launched"
    /\ PostError("navigation_failed")
    /\ browsers' = [browsers EXCEPT !.scrape = "closed"]
    /\ pc' = "navigationFailed"
    /\ outcome' = "null"
    /\ UNCHANGED aroundScrape

\* a page call outside every try block rejects (newPage, the waitForTimeout
\* of the retry, page.evaluate, page.content, writeFile, page.screenshot):
\* scrapeWithAuth rejects with its browser still open
PageFails ==
    /\ pc \in {"launched", "navigated"}
    /\ pc' = "pageFailed"
    /\ outcome' = "rejected"
    /\ UNCHANGED <<posts, errorCalls, browsers>>
    /\ UNCHANGED aroundScrape

\* new JSDOM(html) throws: close the browser, report, return null
JsdomFails ==
    /\ pc = "navigated"
    /\ \E html \in Pages : ~html.parses
    /\ browsers' = [browsers EXCEPT !.scrape = "closed"]
    /\ PostError("jsdom_parse_failed")
    /\ pc' = "jsdomFailed"
    /\ outcome' = "null"
    /\ UNCHANGED aroundScrape

\* the page has no title or no og:image path: close the browser, report,
\* return null
MissingMetadata ==
    /\ pc = "navigated"
    /\ \E html \in Pages : html.parses /\ MetadataMissing(Metadata(html))
    /\ browsers' = [browsers EXCEPT !.scrape = "closed"]
    /\ PostError("missing_metadata")
    /\ pc' = "metadataMissing"
    /\ outcome' = "null"
    /\ UNCHANGED aroundScrape

\* the metadata is complete: close the browser and enter the try block
MetadataFound ==
    /\ pc = "navigated"
    /\ \E html \in Pages : html.parses /\ ~MetadataMissing(Metadata(html))
    /\ browsers' = [browsers EXCEPT !.scrape = "closed"]
    /\ pc' = "fetching"
    /\ UNCHANGED <<posts, errorCalls, outcome>>
    /\ UNCHANGED aroundScrape

\* fetchJsonWithPuppeteer launches its browser, reads the JSON, closes the
\* browser, parses and saves the JSON
FetchJson ==
    /\ pc = "fetching"
    /\ browsers' = [browsers EXCEPT !.json = "closed"]
    /\ pc' = "fetched"
    /\ UNCHANGED <<posts, errorCalls, outcome>>
    /\ UNCHANGED aroundScrape

\* fetchJsonWithPuppeteer rejects: at the launch (no browser), at the retry
\* or in page.evaluate (browser left open), or in JSON.parse or writeFile
\* (browser closed); the catch of scrapeWithAuth reports and returns null
FetchJsonFails ==
    /\ pc = "fetching"
    /\ \E left \in {"none", "open", "closed"} :
           browsers' = [browsers EXCEPT !.json = left]
    /\ PostError("lesson_parse_failed")
    /\ pc' = "fetchFailed"
    /\ outcome' = "null"
    /\ UNCHANGED aroundScrape

\* the slug is found and the lesson is fetched: fetchLessonAndParse reads
\* the document and pushes the title fragment
StartRender ==
    /\ pc = "fetched"
    /\ json' \in LessonDocuments
    /\ structuredContent' = StartContent(structuredContent, json'.summary)
    /\ pushSite' = <<"title">>
    /\ i' = 1
    /\ calls' = calls + 1
    /\ pc' = "loop"
    /\ UNCHANGED <<variant, log, fullMarkdown, lessonFile, posts, errorCalls, outcome,
                   browsers, returned, now>>

\* downloaded_data.json cannot be read, findSlugByTitle throws, or the
\* lesson fetch fails (fetch rejects, !res.ok, res.json rejects): the catch
\* of scrapeWithAuth reports and returns null
LessonFetchFails ==
    /\ pc = "fetched"
    /\ PostError("lesson_parse_failed")
    /\ pc' = "lessonFetchFailed"
    /\ outcome' = "null"
    /\ UNCHANGED <<browsers>>
    /\ UNCHANGED aroundScrape

NextScrape ==
    \/ Launch
    \/ LaunchFails
    \/ Navigate
    \/ NavigationFails
    \/ PageFails
    \/ JsdomFails
    \/ MissingMetadata
    \/ MetadataFound
    \/ FetchJson
    \/ FetchJsonFails
    \/ StartRender
    \/ LessonFetchFails
    \/ Next

SpecScrape == InitScrape /\ [][NextScrape]_vars

----------------------------------------------------------------------------
(* Several calls of fetchLessonAndParse, one after the other: the file, *)
(* the webhook, the console and the clock keep what earlier calls left.    *)

MaxCalls == 3

\* a document with a component for every branch of the dispatcher, a
\* document whose second component makes the render fail, and a short one
RepeatDocuments ==
    {[summary |-> [title |-> <<"T">>, description |-> <<"D">>],
      components |-> <<Comp("SlateHTML", [html |-> HtmlKatex]),
                       Comp("Latex", [text |-> <<"\\frac", NL, "x">>]),
                       Comp("MarkdownEditor", [text |-> <<"a">>]),
                       Comp("Code", [language |-> <<"go">>, content |-> <<"x">>,
                                     solutionContent |-> <<"s">>, showSolution |-> TRUE]),
                       Comp("Notepad", [text |-> <<"hidden">>]),
                       Comp("Columns", [comps |-> <<Comp("MarkdownEditor", [text |-> <<"l">>]),
                                                    Comp("Image", [text |-> <<"i">>])>>]),
                       Comp("Quiz", [title |-> <<"Q">>,
                                     questions |-> <<[questionText |-> <<"q1">>,
                                                      questionOptions |-> <<Opt(<<"X">>, TRUE)>>]>>]),
                       Comp("WebpackBin", [codeContents |->
                                              [children |-> <<Leaf(<<"index.js">>, <<"i">>)>>]]),
                       Comp("MatchTheAnswers",
                            [content |-> [statements |-> <<<<Pair(<<"L">>, <<"R">>)>>>>]]),
                       Comp("Table", [data |-> <<<<Cell(<<"A">>)>>, <<Cell(<<"1">>)>>>>]),
                       Comp("Permutation", [options |-> <<Option("a", <<"Step1">>)>>,
                                            protected_content |-> <<"a", "zz">>]),
                       Comp("CodeTest", [caption |-> <<"Cap">>]),
                       Comp("Video", [text |-> <<"v">>])>>],
     [summary |-> [description |-> <<"D">>],
      components |-> <<Comp("MarkdownEditor", [text |-> <<"a">>]),
                       Comp("Quiz", [title |-> <<"Q">>])>>],
     [summary |-> [title |-> <<"T">>, description |-> <<"D">>],
      components |-> <<Comp("MarkdownEditor", [text |-> <<"b", NL>>])>>]}

InitRepeat == InitRender(RepeatDocuments)

\* the next call of fetchLessonAndParse, on any document, after the
\* previous call has returned or thrown
CallAgain ==
    /\ pc \in {"done", "failed", "postFailed"}
    /\ calls < MaxCalls
    /\ calls' = calls + 1
    /\ now' = now + 1
    /\ json' \in RepeatDocuments
    /\ pc' = "loop"
    /\ i' = 1
    /\ structuredContent' = StartContent(structuredContent, json'.summary)
    /\ pushSite' = <<"title">>
    /\ fullMarkdown' = <<>>
    /\ outcome' = "running"
    /\ UNCHANGED <<variant, log, lessonFile, posts, errorCalls, browsers, returned>>

NextRepeat == Next \/ CallAgain

SpecRepeat == InitRepeat /\ [][NextRepeat]_vars

----------------------------------------------------------------------------
(* The render as a function of the document, for comparing two documents   *)

RECURSIVE AllPushes(_)
AllPushes(components) ==
    IF components = <<>> THEN <<>>
    ELSE Pushes(Head(components)) \o AllPushes(Tail(components))

\* structuredContent at the end of the loop over a document that never throws
Fragments(doc) ==
    <<<<"SlateHTML", TitleFragment(doc.summary)>>>>
        \o [k \in 1..Len(AllPushes(doc.components)) |-> AllPushes(doc.components)[k].item]

\* the value fetchLessonAndParse returns for such a document
RenderDocument(doc) == JoinFragments(Fragments(doc))

----------------------------------------------------------------------------
(* Vocabulary of the properties                                            *)

OccursAt(s, p, piece) ==
    /\ p >= 1
    /\ p + Len(piece) - 1 <= Len(s)
    /\ SubSeq(s, p, p + Len(piece) - 1) = piece

Contains(s, piece) == \E p \in 1..Len(s) : OccursAt(s, p, piece)

RemoveAt(s, p) == SubSeq(s, 1, p - 1) \o SubSeq(s, p + 1, Len(s))

\* the lines of a text, without their terminators
RECURSIVE Lines(_)
Lines(s) ==
    IF s = <<>> THEN <<>>
    ELSE LET ends == {p \in 1..Len(s) : s[p] = NL}
         IN  IF ends = {} THEN <<s>>
             ELSE LET e == CHOOSE p \in ends : \A q \in ends : p <= q
                  IN  <<SubSeq(s, 1, e - 1)>> \o Lines(SubSeq(s, e + 1, Len(s)))

RECURSIVE TrailingNewlines(_)
TrailingNewlines(s) ==
    IF EndsWithNL(s) THEN 1 + TrailingNewlines(SubSeq(s, 1, Len(s) - 1)) ELSE 0

RECURSIVE LeadingNewlines(_)
LeadingNewlines(s) ==
    IF s # <<>> /\ Head(s) = NL THEN 1 + LeadingNewlines(Tail(s)) ELSE 0

Unrecognized(x) == TypeOf(x) \notin HandledTypes \cup DroppedTypes

\* the components the loop has completed, and the last of them
Done(k) == k < i
LastComp == json.components[i - 1]
LastFragment == structuredContent[Len(structuredContent)][2]
JustRendered(t) == i > 1 /\ TypeOf(LastComp) = t

\* index in structuredContent of the first fragment of component k
FirstFragmentOf(k) == 2 + Len(AllPushes(SubSeq(json.components, 1, k - 1)))

\* number of tokens of the joined document before fragment p starts
RECURSIVE OffsetOf(_, _)
OffsetOf(content, p) ==
    IF p = 1 THEN 0 ELSE OffsetOf(content, p - 1) + Len(content[p - 1][2]) + 1

----------------------------------------------------------------------------
(* Properties                                                              *)

\* C1: after the title fragment, the fragment list holds exactly one
\* fragment per completed component of a non-dropped type, in input order,
\* and nothing for a dropped component.
C1_OneFragmentPerComponent ==
    LET kept == SelectSeq(SubSeq(json.components, 1, i - 1),
                          LAMBDA x : TypeOf(x) \notin DroppedTypes)
    IN  /\ Len(structuredContent) = 1 + Len(kept)
        /\ \A k \in 1..Len(kept) : structuredContent[k + 1][1] = TypeOf(kept[k])

\* the pre-emitted WebpackBin fragment: pushed by the WebpackBin branch itself
PreEmittedWebpackBin(k) ==
    pushSite[k] = "direct" /\ structuredContent[k][1] = "WebpackBin"

\* C2 as stated: every fragment other than the pre-emitted WebpackBin
\* fragment ends with exactly one newline, never two or more.
C2_ExactlyOneNewline ==
    \A k \in 1..Len(structuredContent) :
        ~PreEmittedWebpackBin(k) => TrailingNewlines(structuredContent[k][2]) = 1

\* C2 as amended: every fragment other than the pre-emitted WebpackBin
\* fragment ends with at least one newline.
C2_AtLeastOneNewline ==
    \A k \in 1..Len(structuredContent) :
        ~PreEmittedWebpackBin(k) => TrailingNewlines(structuredContent[k][2]) >= 1

\* a text without a trailing newline went through the common push
C2_Witness ==
    /\ JustRendered("MarkdownEditor")
    /\ ~EndsWithNL(LastComp.content.text)
    /\ LastFragment = LastComp.content.text \o <<NL>>

\* the document json with component k given the dropped type Notepad
WithDropped(k) ==
    [json EXCEPT !.components[k] = [type |-> "Notepad"]]

\* tokens of fullMarkdown that precede the separator in front of the
\* fragment of component k
BeforeFragmentOf(k) == OffsetOf(structuredContent, FirstFragmentOf(k)) - 1

\* C3 as stated: with an unrecognized component instead of a dropped one,
\* the fragment list gains one newline-only fragment and the rendered
\* document gains exactly one newline (one blank line).
C3_OneBlankLineApart ==
    pc = "done" =>
        \A k \in 1..Len(json.components) :
            Unrecognized(json.components[k]) =>
                /\ FirstFragmentOf(k) <= Len(structuredContent)
                /\ structuredContent[FirstFragmentOf(k)][2] = <<NL>>
                /\ Len(Fragments(WithDropped(k))) = Len(structuredContent) - 1
                /\ Len(fullMarkdown) = Len(RenderDocument(WithDropped(k))) + 1

\* C3 as amended: the fragment list gains one newline-only fragment and the
\* rendered document gains exactly two consecutive newlines at its place
\* (the join separator and the fragment), that is two blank lines.
C3_TwoNewlinesApart ==
    pc = "done" =>
        \A k \in 1..Len(json.components) :
            Unrecognized(json.components[k]) =>
                LET at == BeforeFragmentOf(k)
                IN  /\ FirstFragmentOf(k) <= Len(structuredContent)
                    /\ structuredContent[FirstFragmentOf(k)][2] = <<NL>>
                    /\ RemoveAt(structuredContent, FirstFragmentOf(k))
                           = Fragments(WithDropped(k))
                    /\ OccursAt(fullMarkdown, at + 1, <<NL, NL>>)
                    /\ SubSeq(fullMarkdown, 1, at)
                           \o SubSeq(fullMarkdown, at + 3, Len(fullMarkdown))
                           = RenderDocument(WithDropped(k))

\* a rendered document with an unrecognized component between two others
C3_Witness ==
    /\ pc = "done"
    /\ Len(json.components) = 2
    /\ Unrecognized(json.components[1])
    /\ TypeOf(json.components[2]) = "MarkdownEditor"

\* C4 as stated: only a WebpackBin fragment is pushed by its own branch;
\* every other fragment is pushed by the common push after normalization.
C4_OnlyWebpackBinDirect ==
    \A k \in 2..Len(structuredContent) :
        /\ pushSite[k] \in {"direct", "common"}
        /\ pushSite[k] = "direct" => structuredContent[k][1] = "WebpackBin"

\* C4 as amended: only WebpackBin and CodeTest fragments are pushed by their
\* own branch; every fragment of another type is pushed by the common push.
C4_OnlyWebpackBinAndCodeTestDirect ==
    \A k \in 2..Len(structuredContent) :
        /\ pushSite[k] \in {"direct", "common"}
        /\ pushSite[k] = "direct" =>
               structuredContent[k][1] \in {"WebpackBin", "CodeTest"}

\* a CodeTest fragment pushed by its branch after a Quiz fragment pushed by
\* the common push
C4_Witness ==
    /\ Len(structuredContent) >= 3
    /\ structuredContent[2][1] = "Quiz" /\ pushSite[2] = "common"
    /\ structuredContent[3][1] = "CodeTest" /\ pushSite[3] = "direct"

\* a fenced block as it appears in a fragment
FencedBlock(lang, code) == <<Ticks>> \o lang \o <<NL>> \o code \o <<NL, Ticks, NL>>

\* the heading of a collapsible Solution section
SolutionSummary == <<"<details>", NL, "<summary>", " Solution", "</summary>", NL, NL>>

CodeLang(c) == IF Has(c, "language") THEN c.language ELSE <<>>
CodeLearner(c) == IF Has(c, "content") THEN c.content ELSE <<>>
CodeSolution(c) == IF Has(c, "solutionContent") THEN c.solutionContent ELSE <<>>
ShowsSolution(c) == Has(c, "showSolution") /\ c.showSolution

\* C5: a Code component with showSolution true and a solution that is
\* non-empty after trimming renders the fenced trimmed learner code and,
\* after it, a Solution section holding the fenced trimmed solution code.
C5_LearnerThenSolution ==
    (JustRendered("Code") /\ ShowsSolution(LastComp.content)
        /\ Trim(CodeSolution(LastComp.content)) # <<>>) =>
        LET c == LastComp.content
            learner == FencedBlock(CodeLang(c), Trim(CodeLearner(c)))
            solution == SolutionSummary
                            \o FencedBlock(CodeLang(c), Trim(CodeSolution(c)))
                            \o <<"</details>", NL>>
        IN  \E p \in 1..Len(LastFragment) :
                /\ OccursAt(LastFragment, p, learner)
                /\ OccursAt(LastFragment, p + Len(learner), solution)
                /\ p + Len(learner) + Len(solution) - 1 = Len(LastFragment)

\* a Code component whose solution needs trimming was rendered with it
C5_Witness ==
    /\ JustRendered("Code")
    /\ ShowsSolution(LastComp.content)
    /\ Trim(CodeSolution(LastComp.content)) # <<>>
    /\ Trim(CodeSolution(LastComp.content)) # CodeSolution(LastComp.content)
    /\ Contains(LastFragment, SolutionSummary)

\* the solution texts a Code component may carry
SolutionTexts == {<<>>, <<"s">>, <<NL, "s", " ">>, <<" ", NL>>, <<"t", "u">>}

\* C6: a Code component with showSolution false, or with a solution that is
\* empty after trimming, renders no Solution section and its fragment does
\* not depend on solutionContent: no solution code appears in it.
C6_NoSolutionLeak ==
    (JustRendered("Code")
        /\ (~ShowsSolution(LastComp.content)
              \/ Trim(CodeSolution(LastComp.content)) = <<>>)) =>
        LET c == LastComp.content
        IN  /\ ~Contains(LastFragment, <<"<details>">>)
            /\ ~Contains(LastFragment, <<" Solution">>)
            /\ LastFragment[Len(LastFragment) - 1] = Ticks
            /\ ~ShowsSolution(c) =>
                   \A s \in SolutionTexts :
                       CodeFragment([f \in DOMAIN c \cup {"solutionContent"} |->
                                        IF f = "solutionContent" THEN s ELSE c[f]])
                           = LastFragment

\* a Code component with a real solution and showSolution false was rendered
C6_Witness ==
    /\ JustRendered("Code")
    /\ ~ShowsSolution(LastComp.content)
    /\ Trim(CodeSolution(LastComp.content)) # <<>>
    /\ Contains(LastFragment, Trim(CodeLearner(LastComp.content)))

\* a required nested field of the component is absent
MissingRequiredField(x) ==
    \/ ~Has(x, "content")
    \/ /\ Has(x, "content")
       /\ \/ TypeOf(x) \in {"Latex", "MarkdownEditor"} /\ ~Has(x.content, "text")
          \/ TypeOf(x) = "Quiz" /\ ~Has(x.content, "questions")
          \/ /\ TypeOf(x) = "Quiz" /\ Has(x.content, "questions")
             /\ \E n \in 1..Len(x.content.questions) :
                   ~Has(x.content.questions[n], "questionOptions")
          \/ TypeOf(x) = "Table" /\ ~Has(x.content, "data")
          \/ TypeOf(x) = "WebpackBin" /\ ~Has(x.content, "codeContents")
          \/ TypeOf(x) = "MatchTheAnswers" /\ ~Has(x.content, "content")
          \/ /\ TypeOf(x) = "Columns" /\ Has(x.content, "comps")
             /\ \E n \in 1..Len(x.content.comps) :
                   /\ TypeOf(x.content.comps[n]) = "MarkdownEditor"
                   /\ ~Has(x.content.comps[n], "content")

PostedMarkdown == \E n \in 1..Len(posts) : Has(posts[n], "fullMarkdown")

\* C7: a render that fails on a component with a required nested field
\* absent returns, writes and posts no Markdown, not even the fragments
\* rendered so far; only such a component of a rendered type makes it fail.
C7_FailureAbortsWholeRender ==
    /\ pc = "failed" =>
           /\ fullMarkdown = <<>>
           /\ ~lessonFile.written
           /\ ~PostedMarkdown
           /\ TypeOf(json.components[i]) \in HandledTypes
           /\ MissingRequiredField(json.components[i])
    /\ (pc = "done" /\ Len(json.components) > 0) =>
           \A k \in 1..Len(json.components) :
               TypeOf(json.components[k]) \in HandledTypes =>
                   ~MissingRequiredField(json.components[k])

\* the render failed on the second component, after a fragment was pushed
C7_Witness ==
    /\ pc = "failed"
    /\ i = 2
    /\ Len(structuredContent) > 1
    /\ TypeOf(json.components[i]) = "Quiz"
    /\ ~Has(json.components[i].content, "questions")

\* C8: an unrecognized component is logged, contributes one fragment that is
\* a single newline, and leaves every other fragment, before and after it,
\* as it is for the document without that component.
C8_UnknownRecoveredLocally ==
    pc = "done" =>
        \A k \in 1..Len(json.components) :
            Unrecognized(json.components[k]) =>
                LET others == [json EXCEPT !.components =
                                  RemoveAt(json.components, k)]
                IN  /\ FirstFragmentOf(k) <= Len(structuredContent)
                    /\ structuredContent[FirstFragmentOf(k)]
                           = <<TypeOf(json.components[k]), <<NL>>>>
                    /\ RemoveAt(structuredContent, FirstFragmentOf(k))
                           = Fragments(others)
                    /\ \E n \in 1..Len(log) :
                           log[n] = <<"Unhandled type:", TypeOf(json.components[k])>>

\* an unrecognized component came first and the next one was rendered
C8_Witness ==
    /\ pc = "done"
    /\ Len(json.components) = 2
    /\ Unrecognized(json.components[1])
    /\ TypeOf(json.components[2]) = "Code"
    /\ Len(structuredContent) = 3

SummaryField(f) == IF Has(json.summary, f) THEN json.summary[f] ELSE <<"undefined">>

\* the title fragment comes first and the document is the fragments in
\* order, fragment p starting right after one newline that follows p - 1
DocumentIsFragmentsInOrder ==
    /\ structuredContent[1][2] =
           <<"# ">> \o SummaryField("title") \o <<NL>>
               \o SummaryField("description") \o <<NL, "---", NL>>
    /\ \A p \in 1..Len(structuredContent) :
           /\ OccursAt(fullMarkdown, OffsetOf(structuredContent, p) + 1,
                       structuredContent[p][2])
           /\ p > 1 => fullMarkdown[OffsetOf(structuredContent, p)] = NL
    /\ Len(fullMarkdown) =
           OffsetOf(structuredContent, Len(structuredContent))
               + Len(structuredContent[Len(structuredContent)][2])

\* C9 as stated: the document is the title fragment followed by all
\* fragments in order, with exactly one blank line (two newlines in a row)
\* between every two consecutive fragments.
C9_SingleBlankLineBetweenFragments ==
    pc = "done" =>
        /\ DocumentIsFragmentsInOrder
        /\ \A p \in 1..(Len(structuredContent) - 1) :
               TrailingNewlines(structuredContent[p][2]) + 1
                   + LeadingNewlines(structuredContent[p + 1][2]) = 2

\* C9 as amended: the document is the title fragment followed by all
\* fragments in order, consecutive fragments being separated by exactly one
\* newline character added by the join, hence by at least one blank line.
C9_SingleNewlineSeparator ==
    pc = "done" =>
        /\ DocumentIsFragmentsInOrder
        /\ \A p \in 1..(Len(structuredContent) - 1) :
               TrailingNewlines(structuredContent[p][2]) + 1
                   + LeadingNewlines(structuredContent[p + 1][2]) >= 2

\* a document of the title and two component fragments was joined
C9_Witness ==
    /\ pc = "done"
    /\ Len(structuredContent) = 3
    /\ Len(fullMarkdown) = Len(structuredContent[1][2]) + Len(structuredContent[2][2])
                               + Len(structuredContent[3][2]) + 2

PermOptions(c) == IF Has(c, "options") THEN c.options ELSE <<>>
PermKey(c) == IF Has(c, "protected_content") THEN c.protected_content ELSE <<>>

\* the text shown for an option: its trimmed data, or the placeholder
ShownText(opt) ==
    IF Has(opt, "content") /\ Has(opt.content, "data") /\ Trim(opt.content.data) # <<>>
    THEN Trim(opt.content.data)
    ELSE <<"[em dash]">>

\* C10: a Permutation fragment lists one bullet per option in option order
\* and, when the answer key is non-empty, a Solution list with one line per
\* key entry in key order, numbered from 1, showing the text of an option
\* with the referenced hashid when there is one.
C10_PermutationOrder ==
    JustRendered("Permutation") =>
        LET c == LastComp.content
            options == PermOptions(c)
            key == PermKey(c)
            lines == Lines(LastFragment)
            n == Len(options)
        IN  /\ lines[1] = <<"### Reorder the Steps">>
            /\ \A k \in 1..n : lines[4 + k] = <<"- ">> \o ShownText(options[k])
            /\ IF key = <<>>
               THEN Len(lines) = 4 + n
               ELSE /\ Len(lines) = 4 + n + 4 + Len(key) + 2
                    /\ lines[4 + n + 1] = <<>>
                    /\ lines[4 + n + 2] = <<"<details>">>
                    /\ lines[4 + n + 3] = <<"<summary>", " Solution", "</summary>">>
                    /\ lines[4 + n + 4] = <<>>
                    /\ \A j \in 1..Len(key) :
                           LET line == lines[4 + n + 4 + j]
                           IN  /\ SubSeq(line, 1, 2) = <<ToString(j), ". ">>
                               /\ (\E k \in 1..n : options[k].hashid = key[j]) =>
                                      \E k \in 1..n :
                                          /\ options[k].hashid = key[j]
                                          /\ line = <<ToString(j), ". ">>
                                                        \o ShownText(options[k])
                    /\ lines[Len(lines)] = <<"</details>">>

\* the answer key of the rendered Permutation reverses its two options
C10_Witness ==
    /\ JustRendered("Permutation")
    /\ Len(PermOptions(LastComp.content)) = 2
    /\ PermKey(LastComp.content) = <<"b", "a">>
    /\ Contains(LastFragment, <<"1", ". ", "Step2", NL, "2", ". ", "Step1", NL>>)

\* C11: in a Permutation fragment an answer-key entry is rendered as the
\* literal (missing) exactly when no option carries its hashid.
C11_MissingIffAbsentHashid ==
    (JustRendered("Permutation") /\ PermKey(LastComp.content) # <<>>) =>
        LET options == PermOptions(LastComp.content)
            key == PermKey(LastComp.content)
            lines == Lines(LastFragment)
            n == Len(options)
        IN  /\ Len(lines) = 4 + n + 4 + Len(key) + 2
            /\ \A j \in 1..Len(key) :
                   (lines[4 + n + 4 + j] = <<ToString(j), ". ", "(missing)">>)
                       <=> ~(\E k \in 1..n : options[k].hashid = key[j])

\* The markdown of one table cell: the cell's HTML converted, then trimmed.
CellMd(cell) == Trim(Turndown(cell))

\* C12 as stated: a Table fragment is the header row, the divider row and
\* one row per remaining data row (each with its own cells), every row
\* terminated by one newline and nothing else.
C12_RowsEachEndedByOneNewline ==
    (JustRendered("Table") /\ Has(LastComp.content, "data")
                           /\ LastComp.content.data # <<>>) =>
        LET data == LastComp.content.data
            PipeRow(cells) == <<"| ">> \o JoinWith(cells, <<" | ">>) \o <<" |">>
            Row(r) == IF r = 1 THEN PipeRow([c \in 1..Len(data[1]) |-> CellMd(data[1][c])])
                      ELSE IF r = 2 THEN PipeRow([c \in 1..Len(data[1]) |-> <<"---">>])
                      ELSE PipeRow([c \in 1..Len(data[r - 1]) |-> CellMd(data[r - 1][c])])
        IN  LastFragment = Concat([r \in 1..(Len(data) + 1) |-> Row(r) \o <<NL>>])

\* C12 amended: the rows after the divider are joined by newlines and the
\* join is followed by one newline, so a header-only table ends with the
\* divider row followed by two newlines.
C12_BodyJoinedThenNewline ==
    (JustRendered("Table") /\ Has(LastComp.content, "data")
                           /\ LastComp.content.data # <<>>) =>
        LET data == LastComp.content.data
            PipeRow(cells) == <<"| ">> \o JoinWith(cells, <<" | ">>) \o <<" |">>
            Row(r) == IF r = 1 THEN PipeRow([c \in 1..Len(data[1]) |-> CellMd(data[1][c])])
                      ELSE IF r = 2 THEN PipeRow([c \in 1..Len(data[1]) |-> <<"---">>])
                      ELSE PipeRow([c \in 1..Len(data[r - 1]) |-> CellMd(data[r - 1][c])])
            rows == Concat([r \in 1..(Len(data) + 1) |-> Row(r) \o <<NL>>])
        IN  /\ LastFragment = (IF Len(data) = 1 THEN rows \o <<NL>> ELSE rows)
            /\ (data = <<<<Cell(<<"A">>), Cell(<<"B">>)>>, <<Cell(<<"1">>), Cell(<<"2">>)>>>>
                    => LastFragment = <<"| ", "A", " | ", "B", " |", NL,
                                        "| ", "---", " | ", "---", " |", NL,
                                        "| ", "1", " | ", "2", " |", NL>>)

\* A ragged table has been rendered: a data row shorter and a data row
\* longer than the header row.
C12_Witness ==
    /\ JustRendered("Table")
    /\ Has(LastComp.content, "data")
    /\ Len(LastComp.content.data) >= 3
    /\ \E r \in 2..Len(LastComp.content.data) :
           Len(LastComp.content.data[r]) < Len(LastComp.content.data[1])
    /\ \E r \in 2..Len(LastComp.content.data) :
           Len(LastComp.content.data[r]) > Len(LastComp.content.data[1])

\* The number of fragment lines taken by the first n questions of a quiz:
\* per question its label, one line per option and one empty line.
RECURSIVE QuizLinesOf(_, _)
QuizLinesOf(questions, n) ==
    IF n = 0 THEN 0
    ELSE QuizLinesOf(questions, n - 1) + Len(questions[n].questionOptions) + 2

\* C13: a Quiz fragment lists the questions in input order, the i-th one
\* labelled Q<i>, each followed by one checklist line per option in option
\* order, marked [x] exactly when the option's correct flag is true and
\* [ ] otherwise, then an empty line.
C13_QuizNumberedChecklist ==
    JustRendered("Quiz") =>
        LET questions == LastComp.content.questions
            lines == Lines(LastFragment)
        IN  /\ Len(lines) = 2 + QuizLinesOf(questions, Len(questions))
            /\ \A n \in 1..Len(questions) :
                   LET at == 2 + QuizLinesOf(questions, n - 1) + 1
                       options == questions[n].questionOptions
                   IN  /\ lines[at] = <<"**Q", ToString(n), ": ">>
                                          \o questions[n].questionText \o <<"**">>
                       /\ \A k \in 1..Len(options) :
                              LET correct == Has(options[k], "correct")
                                                 /\ options[k].correct = TRUE
                              IN  lines[at + k] =
                                      <<"- ", IF correct THEN "[x]" ELSE "[ ]", " ">>
                                          \o options[k].text
                       /\ lines[at + Len(options) + 1] = <<>>

\* A quiz of two questions has been rendered, with a correct option, an
\* incorrect one, and both on the same question.
C13_Witness ==
    /\ JustRendered("Quiz")
    /\ Len(LastComp.content.questions) = 2
    /\ \E k, l \in 1..Len(LastComp.content.questions[1].questionOptions) :
           /\ k < l
           /\ LastComp.content.questions[1].questionOptions[k].correct = TRUE
           /\ LastComp.content.questions[1].questionOptions[l].correct = FALSE
    /\ Contains(LastFragment, <<"**Q", "2", ": ">>)

\* The collapsible sections of a fragment, in order: for every summary line
\* its title, and the language and the (one-line) code of the fence below.
FragmentSections(fragment) ==
    LET lines == Lines(fragment)
        at == {p \in 1..Len(lines) : lines[p] # <<>> /\ Head(lines[p]) = "<summary>"}
        Nth(n) == CHOOSE p \in at : Cardinality({q \in at : q < p}) = n - 1
    IN  [n \in 1..Cardinality(at) |->
            [fileName |-> SubSeq(lines[Nth(n)], 2, Len(lines[Nth(n)]) - 1),
             language |-> Tail(lines[Nth(n) + 2]),
             code     |-> lines[Nth(n) + 3]]]

\* Every node of a file tree in depth-first pre-order, each with the flag
\* whether one of its ancestors is a leaf-flagged node with content.
RECURSIVE NodesPreOrder(_, _)
NodesPreOrder(children, under) ==
    IF children = <<>> THEN <<>>
    ELSE LET node == Head(children)
             collected == Flag(node, "leaf") /\ Has(node, "data")
                              /\ Has(node.data, "content") /\ node.data.content # <<>>
         IN  <<[node |-> node, under |-> under, collected |-> collected]>>
                 \o (IF Has(node, "children")
                     THEN NodesPreOrder(node.children, under \/ collected)
                     ELSE <<>>)
                 \o NodesPreOrder(Tail(children), under)

\* the section the claim expects for a collected node
FileSection(node) ==
    [fileName |-> node.module,
     language |-> IF Has(node.data, "language") THEN node.data.language
                  ELSE <<"javascript">>,
     code     |-> node.data.content]

\* the file sections of the WebpackBin fragment: all sections but the
\* Evaluation Code section that may follow them
WebpackFileSections ==
    LET k == Len(structuredContent) - 1
        sections == FragmentSections(structuredContent[k][2])
        judged == LET cc == LastComp.content.codeContents
                  IN  Has(cc, "judge") /\ Has(cc.judge, "evaluationContent")
                          /\ cc.judge.evaluationContent # <<>>
    IN  IF judged THEN SubSeq(sections, 1, Len(sections) - 1) ELSE sections

WebpackTree ==
    IF Has(LastComp.content.codeContents, "children")
    THEN LastComp.content.codeContents.children ELSE <<>>

\* C15 as stated: the file sections of a WebpackBin fragment are, in order,
\* those of all nodes of the tree with the leaf flag and non-empty content,
\* in depth-first pre-order, every node with children being descended.
C15_AllContentLeavesPreOrder ==
    JustRendered("WebpackBin") =>
        LET IsCollected(e) == e.collected
            leaves == SelectSeq(NodesPreOrder(WebpackTree, FALSE), IsCollected)
        IN  WebpackFileSections = [n \in 1..Len(leaves) |-> FileSection(leaves[n].node)]

\* C15 amended: a node that is collected is not descended, so the nodes
\* below a leaf-flagged node with content are left out; all other nodes
\* with the leaf flag and non-empty content appear, in pre-order.
C15_LeavesNotUnderCollected ==
    JustRendered("WebpackBin") =>
        LET IsTopCollected(e) == e.collected /\ ~e.under
            leaves == SelectSeq(NodesPreOrder(WebpackTree, FALSE), IsTopCollected)
        IN  WebpackFileSections = [n \in 1..Len(leaves) |-> FileSection(leaves[n].node)]

\* A tree has been rendered in which a collected file lies below a
\* directory node and is followed by a file of the top level.
C15_Witness ==
    /\ JustRendered("WebpackBin")
    /\ \E p, q \in 1..Len(WebpackTree) :
           /\ p < q
           /\ Has(WebpackTree[p], "children")
           /\ ~Flag(WebpackTree[p], "leaf")
           /\ \E r \in 1..Len(WebpackTree[p].children) :
                  /\ Flag(WebpackTree[p].children[r], "leaf")
                  /\ Contains(structuredContent[Len(structuredContent) - 1][2],
                              <<"<summary>">> \o WebpackTree[p].children[r].module)
           /\ Flag(WebpackTree[q], "leaf")
           /\ Contains(structuredContent[Len(structuredContent) - 1][2],
                       <<"<summary>">> \o WebpackTree[q].module)

\* The outline of a fragment: its language sub-headers and the summary
\* lines of its collapsible sections, in order.
FragmentOutline(fragment) ==
    LET IsOutline(line) == line # <<>> /\ Head(line) \in {"#### Language: ", "<summary>"}
    IN  SelectSeq(Lines(fragment), IsOutline)

SubHeader(lang) == <<"#### Language: ">> \o lang
SummaryLine(title) == <<"<summary>">> \o title \o <<"</summary>">>

CodeContentOf(block) ==
    IF Has(block, "codeContents") /\ Has(block.codeContents, "content")
    THEN block.codeContents.content ELSE <<>>

\* the outline C16 describes for one language; with skipEmpty the additional
\* files without content are left out
LanguageOutline(entry, additionalFiles, skipEmpty) ==
    LET lang == entry[1]
        mainName == IF Has(entry[2], "mainFileName") THEN entry[2].mainFileName
                    ELSE <<"main.">> \o ToLowerCase(lang)
        under == {k \in 1..Len(additionalFiles) : additionalFiles[k][1] = lang}
        files == IF under = {} THEN <<>> ELSE additionalFiles[CHOOSE k \in under : TRUE][2]
        Shown(file) == ~skipEmpty \/ CodeContentOf(file[2]) # <<>>
        shown == SelectSeq(files, Shown)
    IN  <<SubHeader(lang)>>
            \o (IF CodeContentOf(entry[2]) # <<>> THEN <<SummaryLine(mainName)>> ELSE <<>>)
            \o [k \in 1..Len(shown) |-> SummaryLine(shown[k][1])]

CodeTestOutline(c, skipEmpty) ==
    LET languageContents == IF Has(c, "languageContents") THEN c.languageContents ELSE <<>>
        additionalFiles == IF Has(c, "additionalFiles") THEN c.additionalFiles ELSE <<>>
        solved == Has(c, "solution") /\ Has(c.solution, "content") /\ c.solution.content # <<>>
    IN  Concat([k \in 1..Len(languageContents) |->
                   LanguageOutline(languageContents[k], additionalFiles, skipEmpty)])
            \o (IF solved THEN <<SummaryLine(<<"Solution">>)>> ELSE <<>>)

\* the fragment the CodeTest branch pushed for the component just rendered
CodeTestPushed == structuredContent[Len(structuredContent) - 1][2]

\* C16 as stated: per language, in iteration order, a sub-header, the main
\* file's section if main code is present, then one section for each
\* additional file registered under the language; the solution comes last.
C16_SectionPerAdditionalFile ==
    JustRendered("CodeTest") =>
        FragmentOutline(CodeTestPushed) = CodeTestOutline(LastComp.content, FALSE)

\* C16 amended: an additional file gets a section only if its content is
\* non-empty.
C16_SectionPerNonEmptyAdditionalFile ==
    JustRendered("CodeTest") =>
        FragmentOutline(CodeTestPushed) = CodeTestOutline(LastComp.content, TRUE)

\* Two languages have been rendered, one with a defaulted main file name,
\* one with an explicit name and an additional file, and a solution.
C16_Witness ==
    /\ JustRendered("CodeTest")
    /\ Has(LastComp.content, "languageContents")
    /\ Len(LastComp.content.languageContents) = 2
    /\ Has(LastComp.content, "additionalFiles")
    /\ Len(FragmentOutline(CodeTestPushed)) = 6
    /\ FragmentOutline(CodeTestPushed)[2] = SummaryLine(<<"main.", "python">>)
    /\ FragmentOutline(CodeTestPushed)[6] = SummaryLine(<<"Solution">>)

\* the display text C17 describes for a math container: its own equation
\* attribute, else the attribute of a descendant, else its trimmed text
ResolvedEquation(k) ==
    LET with == {n \in 1..Len(k.kids) : Has(k.kids[n], "equation")}
    IN  IF Has(k, "equation") THEN k.equation
        ELSE IF with # {} THEN k.kids[CHOOSE n \in with : \A m \in with : n <= m].equation
        ELSE Trim(Concat([n \in 1..Len(k.kids) |-> k.kids[n].text]))

\* the HTML with every math container replaced in place by $<resolved>$
WithResolvedEquations(html) ==
    [b \in 1..Len(html) |->
        [tag |-> html[b].tag, level |-> html[b].level,
         kids |-> [n \in 1..Len(html[b].kids) |->
                      IF html[b].kids[n].kind = "katex"
                      THEN Text(<<"$">> \o ResolvedEquation(html[b].kids[n]) \o <<"$">>)
                      ELSE html[b].kids[n]]]]

\* C17: the fragment of an HTML component is the Markdown of its HTML with
\* every math container replaced in place by $<text>$, the text being the
\* container's own equation attribute, else a descendant's, else the
\* container's trimmed text content; an empty container becomes $$.
C17_EquationPriority ==
    ((JustRendered("SlateHTML") \/ JustRendered("TableHTML")) /\ Has(LastComp.content, "html")) =>
        SubSeq(LastFragment, 1, Len(LastFragment) - 1) =
            UnescapeUnderscore(Turndown(WithResolvedEquations(LastComp.content.html)))

\* the text a MarkdownEditor sub-component contributes (an absent text is
\* interpolated as the word undefined)
ColumnText(col) ==
    IF Has(col.content, "text") THEN col.content.text ELSE <<"undefined">>

\* C18: a Columns fragment is the concatenation, in sub-component order, of
\* the text of each MarkdownEditor sub-component followed by a blank line;
\* sub-components of other types add nothing and do not stop the
\* iteration. (An empty concatenation is pushed as a single newline by the
\* normalization of every fragment.)
C18_ColumnsConcatenatesMarkdown ==
    JustRendered("Columns") =>
        LET comps == IF Has(LastComp.content, "comps") THEN LastComp.content.comps ELSE <<>>
            IsMarkdown(col) == Has(col, "type") /\ col.type = "MarkdownEditor"
            markdown == SelectSeq(comps, IsMarkdown)
            expected == Concat([k \in 1..Len(markdown) |-> ColumnText(markdown[k]) \o <<NL, NL>>])
        IN  IF expected = <<>> THEN LastFragment = <<NL>> ELSE LastFragment = expected

\* A Columns block has been rendered in which a sub-component of another
\* type stands between two MarkdownEditor sub-components.
C18_Witness ==
    /\ JustRendered("Columns")
    /\ Has(LastComp.content, "comps")
    /\ \E a, b, c \in 1..Len(LastComp.content.comps) :
           /\ a < b /\ b < c
           /\ LastComp.content.comps[a].type = "MarkdownEditor"
           /\ LastComp.content.comps[b].type # "MarkdownEditor"
           /\ LastComp.content.comps[c].type = "MarkdownEditor"
           /\ Contains(LastFragment, LastComp.content.comps[c].content.text)

\* the components processed so far, by their types
ProcessedTypes == [k \in 1..(i - 1) |-> TypeOf(json.components[k])]

\* the types a component of which pushes its own fragment before the
\* common push
TwicePushedTypes == {"WebpackBin", "CodeTest"}

\* C19: the fragment list holds the title, one fragment per non-dropped
\* component and one more per WebpackBin or CodeTest component; the
\* fragment a WebpackBin or CodeTest component pushes itself is immediately
\* followed by a fragment of the same component that is a single newline,
\* and every other fragment is the only one of its component.
C19_FragmentCount ==
    LET kept == SelectSeq(ProcessedTypes, LAMBDA t : t \notin DroppedTypes)
        twice == SelectSeq(ProcessedTypes, LAMBDA t : t \in TwicePushedTypes)
        \* the fragments of the first n kept components
        Upto(n) == n + Len(SelectSeq(SubSeq(kept, 1, n), LAMBDA t : t \in TwicePushedTypes))
    IN  /\ Len(structuredContent) = 1 + Len(kept) + Len(twice)
        /\ \A n \in 1..Len(kept) :
               LET first == 1 + Upto(n - 1) + 1
               IN  /\ structuredContent[first][1] = kept[n]
                   /\ pushSite[first] = (IF kept[n] \in TwicePushedTypes
                                          THEN "direct" ELSE "common")
                   /\ kept[n] \in TwicePushedTypes =>
                          /\ structuredContent[first + 1] = <<kept[n], <<NL>>>>
                          /\ pushSite[first + 1] = "common"

\* A CodeTest component has been rendered after another component: the
\* list holds the title, that component's fragment and the two fragments
\* of the CodeTest component.
C19_Witness ==
    /\ i = 3
    /\ TypeOf(json.components[1]) \notin DroppedTypes \cup TwicePushedTypes
    /\ TypeOf(json.components[2]) = "CodeTest"
    /\ Len(structuredContent) = 4
    /\ structuredContent[3][1] = "CodeTest"
    /\ structuredContent[4] = <<"CodeTest", <<NL>>>>

\* C14: every Markdown a render call returns is the one any other call
\* returned for the same document, whatever was rendered before and
\* whatever the clock shows, and it is the Markdown a first call on that
\* document returns.
C14_SameDocumentSameMarkdown ==
    /\ \A a, b \in 1..Len(returned) :
           returned[a][1] = returned[b][1] => returned[a][2] = returned[b][2]
    /\ \A a \in 1..Len(returned) : returned[a][2] = RenderDocument(returned[a][1])

\* A document has been rendered, then another one, then the first one
\* again, at three different times; in my_parser.mjs the webhook holds the
\* same Markdown with two different timestamps.
C14_Witness ==
    /\ Len(returned) = 3
    /\ returned[1][1] = returned[3][1]
    /\ returned[2][1] # returned[1][1]
    /\ now = 2
    /\ variant = "my_parser" =>
           \E m, n \in 1..Len(posts) :
               /\ Has(posts[m], "fullMarkdown") /\ Has(posts[n], "fullMarkdown")
               /\ posts[m].fullMarkdown = posts[n].fullMarkdown
               /\ posts[m].timestamp # posts[n].timestamp

\* the reason code that belongs to the place where scrapeWithAuth returned
ReasonOf(site) ==
    CASE site = "navigationFailed" -> "navigation_failed"
      [] site = "jsdomFailed"      -> "jsdom_parse_failed"
      [] site = "metadataMissing"  -> "missing_metadata"
      [] OTHER                     -> "lesson_parse_failed"

\* C20: a run of scrapeWithAuth of my_parser.mjs that returned null has
\* called postErrorToWebhook exactly once, with the reason code of the
\* failure that made it return, and no rendered Markdown was delivered to
\* the webhook as a result.
C20_NullReturnReportedOnce ==
    outcome = "null" =>
        /\ pc \in {"navigationFailed", "jsdomFailed", "metadataMissing", "fetchFailed",
                   "lessonFetchFailed", "failed", "postFailed"}
        /\ errorCalls = <<ReasonOf(pc)>>
        /\ ~PostedMarkdown
        /\ returned = <<>>

\* scrapeWithAuth returned null from the catch of the lesson fetch and
\* parse: the render had pushed a fragment and failed on the second
\* component.
C20_Witness ==
    /\ outcome = "null"
    /\ pc = "failed"
    /\ browsers.scrape = "closed"
    /\ calls = 1
    /\ i = 2
    /\ Len(structuredContent) > 1
    /\ errorCalls = <<"lesson_parse_failed">>

\* scrapeWithAuth has terminated: it returned or it rejected
Terminated == outcome # "running"

\* C21: when scrapeWithAuth of my_parser.mjs has terminated, by a return
\* of the metadata, a return of null or a thrown error, every browser that
\* it or fetchJsonWithPuppeteer launched has been closed.
C21_BrowsersClosedAtTermination ==
    Terminated => /\ browsers.scrape \in {"none", "closed"}
                  /\ browsers.json \in {"none", "closed"}

\* the number of webhook notifications of the run: the calls of
\* postErrorToWebhook and the completed posts of the rendered Markdown
Notifications ==
    Len(errorCalls) + Cardinality({n \in 1..Len(posts) : Has(posts[n], "fullMarkdown")})

\* C22: a run of scrapeWithAuth of my_parser.mjs that has terminated has
\* notified the webhook exactly once: with the rendered Markdown when it
\* returns the metadata, with a failure report otherwise; never zero
\* times and never both.
C22_ExactlyOneNotification ==
    Terminated =>
        /\ Notifications = 1
        /\ outcome = "metadata" => (PostedMarkdown /\ errorCalls = <<>>)
        /\ outcome # "metadata" => (~PostedMarkdown /\ Len(errorCalls) = 1)

====
